---- MODULE Spec2Model ----
(***************************************************************************)
(* WebsiteDeploymentStack (cdk/lib/website-deployment-stack.ts): a private *)
(* S3 bucket behind a CloudFront distribution, read through an origin      *)
(* access identity, with a BucketDeployment that uploads the site and      *)
(* invalidates the distribution.                                           *)
(*                                                                         *)
(* The properties the constructor declares are the definitions of the      *)
(* first section, one record per construct, under the source's names.      *)
(* The actions below them are the life of the declared stack: resources    *)
(* are provisioned in dependency order, the deployment runs, viewers send  *)
(* requests to the distribution and to the bucket's own endpoint, and the  *)
(* stack is torn down. Every action reads the declared properties: what a  *)
(* request, a deployment or a teardown does is decided by them.            *)
(***************************************************************************)
EXTENDS Integers, FiniteSets, Sequences, TLC

\* Bounds of the model.
MaxDeploys == 2     \* deployment runs in one life of the stack

\* File contents.
Contents == {"v1", "v2"}

\* Object keys of the site. "gone.html" is in no source directory.
Keys == {"index.html", "404.html"}

\* Request paths.
Paths == {"/", "/gone.html"}

Methods == {"GET", "OPTIONS", "PUT", "DELETE"}

Schemes == {"http", "https"}

\* A directory of files, or the objects of a bucket: a map from some keys
\* to contents.
Dirs == UNION {[S -> Contents] : S \in SUBSET Keys}

EmptyDir == [k \in {} |-> ""]

(***************************************************************************)
(* The declared properties.                                                *)
(***************************************************************************)

BLOCK_ALL ==
    [blockPublicAcls |-> TRUE, blockPublicPolicy |-> TRUE,
     ignorePublicAcls |-> TRUE, restrictPublicBuckets |-> TRUE]

BLOCK_NONE ==
    [blockPublicAcls |-> FALSE, blockPublicPolicy |-> FALSE,
     ignorePublicAcls |-> FALSE, restrictPublicBuckets |-> FALSE]

\* A faulty variant: the bucket of a public website, readable by anyone.
s3HostingBucket_PublicRead ==
    [publicReadAccess |-> TRUE,
     removalPolicy |-> "DESTROY",
     autoDeleteObjects |-> TRUE,
     blockPublicAccess |-> BLOCK_NONE,
     accessControl |-> "PRIVATE",
     objectOwnership |-> "BUCKET_OWNER_ENFORCED",
     encryption |-> "S3_MANAGED"]

\* A faulty variant: a bucket whose canned ACL lets anyone write.
s3HostingBucket_PublicWrite ==
    [publicReadAccess |-> FALSE,
     removalPolicy |-> "DESTROY",
     autoDeleteObjects |-> TRUE,
     blockPublicAccess |-> BLOCK_NONE,
     accessControl |-> "PUBLIC_READ_WRITE",
     objectOwnership |-> "OBJECT_WRITER",
     encryption |-> "S3_MANAGED"]

\* A faulty variant: the bucket is destroyed with the stack but not emptied first.
s3HostingBucket_NoAutoDelete ==
    [publicReadAccess |-> FALSE,
     removalPolicy |-> "DESTROY",
     autoDeleteObjects |-> FALSE,
     blockPublicAccess |-> BLOCK_ALL,
     accessControl |-> "PRIVATE",
     objectOwnership |-> "BUCKET_OWNER_ENFORCED",
     encryption |-> "S3_MANAGED"]

s3HostingBucket ==
    [publicReadAccess |-> FALSE,
     removalPolicy |-> "DESTROY",
     autoDeleteObjects |-> TRUE,
     blockPublicAccess |-> BLOCK_ALL,
     accessControl |-> "PRIVATE",
     objectOwnership |-> "BUCKET_OWNER_ENFORCED",
     encryption |-> "S3_MANAGED"]

\* The principal of the origin access identity.
cloudfrontOAI == "CloudFrontOriginAccessIdentity"

policyStatement ==
    [actions |-> {"s3:GetObject"},
     resources |-> "objects/*",
     principals |-> {cloudfrontOAI}]

\* cdk.Duration.days(n), in the seconds of a max-age.
DurationDays(n) == n * 24 * 60 * 60

STRICT_ORIGIN_WHEN_CROSS_ORIGIN == "strict-origin-when-cross-origin"

DENY == "DENY"

\* A faulty variant: the frame-options directive does not override the origin.
responseHeaderPolicy_NoOverride ==
    [contentSecurityPolicy |->
        [override |-> TRUE, contentSecurityPolicy |-> "default-src https:;"],
     strictTransportSecurity |->
        [override |-> TRUE, accessControlMaxAge |-> DurationDays(2 * 365),
         includeSubdomains |-> TRUE, preload |-> TRUE],
     contentTypeOptions |-> [override |-> TRUE],
     referrerPolicy |->
        [override |-> TRUE, referrerPolicy |-> STRICT_ORIGIN_WHEN_CROSS_ORIGIN],
     xssProtection |-> [override |-> TRUE, protection |-> TRUE, modeBlock |-> TRUE],
     frameOptions |-> [override |-> FALSE, frameOption |-> DENY]]

responseHeaderPolicy ==
    [contentSecurityPolicy |->
        [override |-> TRUE, contentSecurityPolicy |-> "default-src https:;"],
     strictTransportSecurity |->
        [override |-> TRUE, accessControlMaxAge |-> DurationDays(2 * 365),
         includeSubdomains |-> TRUE, preload |-> TRUE],
     contentTypeOptions |-> [override |-> TRUE],
     referrerPolicy |->
        [override |-> TRUE, referrerPolicy |-> STRICT_ORIGIN_WHEN_CROSS_ORIGIN],
     xssProtection |-> [override |-> TRUE, protection |-> TRUE, modeBlock |-> TRUE],
     frameOptions |-> [override |-> TRUE, frameOption |-> DENY]]

ALLOW_GET_HEAD_OPTIONS == {"GET", "HEAD", "OPTIONS"}

\* A faulty variant: the distribution also serves plain HTTP.
cloudfrontDistribution_AllowAll ==
    [defaultRootObject |-> "index.html",
     minimumProtocolVersion |-> "TLS_V1_2_2021",
     defaultBehavior |->
        [origin |-> [bucket |-> "S3HostingBucket", originAccessIdentity |-> cloudfrontOAI],
         compress |-> TRUE,
         allowedMethods |-> ALLOW_GET_HEAD_OPTIONS,
         viewerProtocolPolicy |-> "ALLOW_ALL",
         responseHeadersPolicy |-> "CloudFrontResponseHeaderPolicy"],
     errorResponses |->
        {[httpStatus |-> 403, responseHttpStatus |-> 404, responsePagePath |-> "/404.html"]}]

\* A faulty variant: the distribution has no error mapping.
cloudfrontDistribution_NoErrorResponses ==
    [defaultRootObject |-> "index.html",
     minimumProtocolVersion |-> "TLS_V1_2_2021",
     defaultBehavior |->
        [origin |-> [bucket |-> "S3HostingBucket", originAccessIdentity |-> cloudfrontOAI],
         compress |-> TRUE,
         allowedMethods |-> ALLOW_GET_HEAD_OPTIONS,
         viewerProtocolPolicy |-> "REDIRECT_TO_HTTPS",
         responseHeadersPolicy |-> "CloudFrontResponseHeaderPolicy"],
     errorResponses |-> {}]

cloudfrontDistribution ==
    [defaultRootObject |-> "index.html",
     minimumProtocolVersion |-> "TLS_V1_2_2021",
     defaultBehavior |->
        [origin |-> [bucket |-> "S3HostingBucket", originAccessIdentity |-> cloudfrontOAI],
         compress |-> TRUE,
         allowedMethods |-> ALLOW_GET_HEAD_OPTIONS,
         viewerProtocolPolicy |-> "REDIRECT_TO_HTTPS",
         responseHeadersPolicy |-> "CloudFrontResponseHeaderPolicy"],
     errorResponses |->
        {[httpStatus |-> 403, responseHttpStatus |-> 404, responsePagePath |-> "/404.html"]}]

\* A faulty variant: the deployment prunes what the source directory lacks.
S3HostingBucketDeployment_Prune ==
    [sources |-> "../website",
     prune |-> TRUE,
     destinationBucket |-> "S3HostingBucket",
     distribution |-> "CloudFrontDistribution"]

S3HostingBucketDeployment ==
    [sources |-> "../website",
     prune |-> FALSE,
     destinationBucket |-> "S3HostingBucket",
     distribution |-> "CloudFrontDistribution"]

CloudFrontDomainName ==
    [value |-> "CloudFrontDistribution.domainName",
     exportName |-> "cloudFrontDomainName"]

(***************************************************************************)
(* The resources of the stack and the references between them.             *)
(***************************************************************************)

R_Bucket == "S3HostingBucket"

R_OAI == "CloudFrontOriginAccessIdentity"

R_Policy == "S3HostingBucketPolicy"

R_Headers == "CloudFrontResponseHeaderPolicy"

R_Dist == "CloudFrontDistribution"

R_Deploy == "S3HostingBucketDeployment"

R_Output == "CloudFrontDomainName"

Resources == {R_Bucket, R_OAI, R_Policy, R_Headers, R_Dist, R_Deploy, R_Output}

\* A faulty variant: the policy statement is attached without waiting for the
\* identity, and the distribution without waiting for the header policy.
DependsOn_Loose(r) ==
    CASE r = R_Policy -> {R_Bucket}
      [] r = R_Dist -> {R_Bucket, R_OAI}
      [] r = R_Deploy -> {R_Bucket, R_Dist}
      [] r = R_Output -> {R_Dist}
      [] OTHER -> {}

\* What each construct's properties refer to.
DependsOn(r) ==
    CASE r = R_Policy -> {R_Bucket, R_OAI}
      [] r = R_Dist -> {R_Bucket, R_OAI, R_Headers}
      [] r = R_Deploy -> {R_Bucket, R_Dist}
      [] r = R_Output -> {R_Dist}
      [] OTHER -> {}

(***************************************************************************)
(* State.                                                                  *)
(***************************************************************************)

VARIABLES
    phase,         \* "active", or "deleting" once teardown began
    created,       \* the resources that exist
    objects,       \* the bucket's objects: key -> content
    deploy,        \* the current run of the deployment action
    prev,          \* whether this run repeats the source of a successful run just
                   \* before it, and the bucket as that run left it
    runs,          \* deployment runs started
    invalidation,  \* the distribution's latest cache invalidation
    lastResp,      \* the response on its way to a viewer, until it is received
    lastWriter     \* who made the latest change to the bucket's objects

vars == <<phase, created, objects, deploy, prev, runs, invalidation, lastResp, lastWriter>>

NoHeaders == [h \in {} |-> ""]

\* A response: where it came from ("cdn", or "s3" for the bucket's own
\* endpoint), the request's scheme and path, what the bucket was asked and
\* the status it gave (none when it was not asked), the security headers the
\* origin had set itself, and what the viewer got.
NoResp ==
    [via |-> "none", scheme |-> "", path |-> "", asked |-> "", origin |-> <<>>,
     originSet |-> {}, status |-> 0, location |-> "", body |-> <<>>,
     headers |-> NoHeaders, oai |-> FALSE]

IdleDeploy ==
    [pc |-> "idle", src |-> EmptyDir, todo |-> {}, uploaded |-> {},
     invalidated |-> FALSE, failedIn |-> "none"]

Init ==
    /\ phase = "active"
    /\ created = {}
    /\ objects = EmptyDir
    /\ deploy = IdleDeploy
    /\ prev = [repeat |-> FALSE, objs |-> EmptyDir]
    /\ runs = 0
    /\ invalidation = "none"
    /\ lastResp = NoResp
    /\ lastWriter = "none"

Running == deploy.pc = "uploading"

\* No response is on its way: a request is answered and its response
\* received before the next step of the stack.
Quiet == lastResp = NoResp

Receive ==
    /\ ~Quiet
    /\ lastResp' = NoResp
    /\ UNCHANGED <<phase, created, objects, deploy, prev, runs, invalidation, lastWriter>>

(***************************************************************************)
(* Provisioning: a resource is created once all it refers to exists. The   *)
(* deployment resource is created by its first successful run.             *)
(***************************************************************************)

Provision(r) ==
    /\ Quiet
    /\ phase = "active"
    /\ r \in Resources \ {R_Deploy}
    /\ r \notin created
    /\ DependsOn(r) \subseteq created
    /\ created' = created \cup {r}
    /\ UNCHANGED <<phase, objects, deploy, prev, runs, invalidation, lastResp, lastWriter>>

(***************************************************************************)
(* The bucket: who may do what to its objects.                             *)
(***************************************************************************)

Anonymous == "anonymous"

DeploymentRole == "S3HostingBucketDeployment"

AutoDeleteRole == "S3HostingBucketAutoDeleteObjects"

\* The statements of the bucket's resource policy: the one the stack adds
\* for the origin identity and the public-read statement of publicReadAccess
\* (refused when public policies are blocked).
BucketPolicy(bkt) ==
    {policyStatement}
    \cup (IF bkt.publicReadAccess /\ ~bkt.blockPublicAccess.blockPublicPolicy
          THEN {[actions |-> {"s3:GetObject"}, resources |-> "objects/*",
                 principals |-> {"*"}]}
          ELSE {})

\* A statement allows a principal it names; a statement for everyone counts
\* only while public bucket policies are not restricted.
StatementAllows(bkt, st, principal, action) ==
    /\ action \in st.actions
    /\ \/ principal \in st.principals
       \/ "*" \in st.principals /\ ~bkt.blockPublicAccess.restrictPublicBuckets

\* A canned ACL grants the public something only when ACLs are in force:
\* object ownership is not enforced and public ACLs are not ignored.
AclAllows(bkt, principal, action) ==
    /\ principal = Anonymous
    /\ bkt.objectOwnership # "BUCKET_OWNER_ENFORCED"
    /\ ~bkt.blockPublicAccess.ignorePublicAcls
    /\ bkt.accessControl = "PUBLIC_READ_WRITE"
    /\ action \in {"s3:PutObject", "s3:DeleteObject"}

\* The deployment's handler is granted read and write on its destination;
\* autoDeleteObjects lets the bucket's auto-delete handler list and delete.
RoleAllows(bkt, principal, action) ==
    \/ /\ principal = DeploymentRole
       /\ S3HostingBucketDeployment.destinationBucket = R_Bucket
       /\ action \in {"s3:GetObject", "s3:PutObject", "s3:DeleteObject"}
    \/ /\ principal = AutoDeleteRole
       /\ bkt.autoDeleteObjects
       /\ action \in {"s3:ListBucket", "s3:DeleteObject"}

S3Allows(principal, action) ==
    \/ /\ R_Policy \in created
       /\ \E st \in BucketPolicy(s3HostingBucket) :
              StatementAllows(s3HostingBucket, st, principal, action)
    \/ AclAllows(s3HostingBucket, principal, action)
    \/ RoleAllows(s3HostingBucket, principal, action)

Put(objs, k, c) == [x \in DOMAIN objs \cup {k} |-> IF x = k THEN c ELSE objs[x]]

Remove(objs, k) == [x \in DOMAIN objs \ {k} |-> objs[x]]

\* The bucket's answer to one request: its status, the body, whether the
\* principal was let in, and the objects afterwards. A refused request is
\* answered 403 whether or not the object exists; so is a read of a missing
\* object by a principal that may not list the bucket.
S3Request(principal, action, k, c) ==
    IF ~S3Allows(principal, action)
    THEN [status |-> 403, body |-> <<>>, allowed |-> FALSE, objs |-> objects]
    ELSE CASE action = "s3:GetObject" ->
                IF k \in DOMAIN objects
                THEN [status |-> 200, body |-> <<objects[k]>>, allowed |-> TRUE,
                      objs |-> objects]
                ELSE [status |-> IF S3Allows(principal, "s3:ListBucket") THEN 404 ELSE 403,
                      body |-> <<>>, allowed |-> TRUE, objs |-> objects]
           [] action = "s3:PutObject" ->
                [status |-> 200, body |-> <<>>, allowed |-> TRUE, objs |-> Put(objects, k, c)]
           [] action = "s3:DeleteObject" ->
                [status |-> 204, body |-> <<>>, allowed |-> TRUE, objs |-> Remove(objects, k)]
           [] OTHER ->
                [status |-> 403, body |-> <<>>, allowed |-> FALSE, objs |-> objects]

\* The headers an origin response may set itself, with its own values.
HeaderNames ==
    {"Content-Security-Policy", "Strict-Transport-Security", "X-Content-Type-Options",
     "Referrer-Policy", "X-XSS-Protection", "X-Frame-Options"}

OriginHeaderSets == {{}, {"X-Frame-Options"}, HeaderNames}

OriginHeaders == [set \in OriginHeaderSets |-> [h \in set |-> "origin"]]

DirectActions == {"s3:GetObject", "s3:PutObject", "s3:DeleteObject"}

\* Every key a request can name.
AllKeys == Keys \cup {"gone.html"}

\* A request sent to the bucket's own endpoint, without the distribution.
DirectRequest(action, k, c) ==
    /\ Quiet
    /\ R_Bucket \in created
    /\ LET r == S3Request(Anonymous, action, k, c) IN
         /\ objects' = r.objs
         /\ lastWriter' = IF r.objs # objects THEN Anonymous ELSE lastWriter
         /\ lastResp' =
              [via |-> "s3", scheme |-> "https", path |-> k, asked |-> action,
               origin |-> <<r.status>>, originSet |-> {}, status |-> r.status,
               location |-> "", body |-> r.body, headers |-> NoHeaders, oai |-> FALSE]
    /\ UNCHANGED <<phase, created, deploy, prev, runs, invalidation>>

(***************************************************************************)
(* The distribution: one request of a viewer, from the protocol policy to  *)
(* the response headers.                                                   *)
(***************************************************************************)

Host == "cloudFrontDomainName"

\* The object a path names: the default root object for "/".
PathKey(dist, p) ==
    IF p = "/" THEN dist.defaultRootObject
    ELSE CHOOSE k \in AllKeys : "/" \o k = p

\* The bucket has no CORS configuration: a preflight is granted by nothing.
MethodAction(m) ==
    CASE m \in {"GET", "HEAD"} -> "s3:GetObject"
      [] m = "PUT" -> "s3:PutObject"
      [] m = "DELETE" -> "s3:DeleteObject"
      [] OTHER -> "cors:Preflight"

\* The value each directive of the policy puts in its header.
HeaderValue(pol, h) ==
    CASE h = "Content-Security-Policy" -> pol.contentSecurityPolicy.contentSecurityPolicy
      [] h = "Strict-Transport-Security" ->
            "max-age=" \o ToString(pol.strictTransportSecurity.accessControlMaxAge)
            \o (IF pol.strictTransportSecurity.includeSubdomains
                THEN "; includeSubDomains" ELSE "")
            \o (IF pol.strictTransportSecurity.preload THEN "; preload" ELSE "")
      [] h = "X-Content-Type-Options" -> "nosniff"
      [] h = "Referrer-Policy" -> pol.referrerPolicy.referrerPolicy
      [] h = "X-XSS-Protection" ->
            IF pol.xssProtection.protection
            THEN "1" \o (IF pol.xssProtection.modeBlock THEN "; mode=block" ELSE "")
            ELSE "0"
      [] h = "X-Frame-Options" -> pol.frameOptions.frameOption

HeaderOverride(pol, h) ==
    CASE h = "Content-Security-Policy" -> pol.contentSecurityPolicy.override
      [] h = "Strict-Transport-Security" -> pol.strictTransportSecurity.override
      [] h = "X-Content-Type-Options" -> pol.contentTypeOptions.override
      [] h = "Referrer-Policy" -> pol.referrerPolicy.override
      [] h = "X-XSS-Protection" -> pol.xssProtection.override
      [] h = "X-Frame-Options" -> pol.frameOptions.override

\* The policy on a response: a directive sets its header, except that a
\* directive without override leaves a header the response already has.
ApplyHeaders(pol, hs) ==
    [h \in HeaderNames \cup DOMAIN hs |->
        IF h \in HeaderNames /\ (HeaderOverride(pol, h) \/ h \notin DOMAIN hs)
        THEN HeaderValue(pol, h)
        ELSE hs[h]]

\* The headers of a response of the behaviour the policy is attached to,
\* by the headers the origin set.
PolicyHeaders ==
    [set \in OriginHeaderSets |-> ApplyHeaders(responseHeaderPolicy, OriginHeaders[set])]

\* What the distribution answers and what the origin's objects are
\* afterwards. The policy of the attached behaviour is put on every response.
CdnResponse(dist, scheme, method, path, c, oh) ==
    LET b == dist.defaultBehavior
        base == [via |-> "cdn", scheme |-> scheme, path |-> path, asked |-> "",
                 origin |-> <<>>, originSet |-> {}, status |-> 403, location |-> "",
                 body |-> <<>>, headers |-> PolicyHeaders[{}], oai |-> FALSE]
    IN
    IF scheme = "http" /\ b.viewerProtocolPolicy = "REDIRECT_TO_HTTPS"
    THEN [resp |-> [base EXCEPT !.status = IF method \in {"GET", "HEAD"} THEN 301 ELSE 307,
                                !.location = "https://" \o Host \o path],
          objs |-> objects]
    ELSE IF scheme = "http" /\ b.viewerProtocolPolicy = "HTTPS_ONLY"
    THEN [resp |-> base, objs |-> objects]
    ELSE IF method \notin b.allowedMethods
    THEN [resp |-> base, objs |-> objects]
    ELSE
    LET who == b.origin.originAccessIdentity
        r == S3Request(who, MethodAction(method), PathKey(dist, path), c)
        errs == {e \in dist.errorResponses : e.httpStatus = r.status}
        e == CHOOSE x \in errs : TRUE
        page == S3Request(who, "s3:GetObject", PathKey(dist, e.responsePagePath), c)
        hdrs == PolicyHeaders[oh]
        asked == [base EXCEPT !.asked = MethodAction(method), !.origin = <<r.status>>,
                              !.originSet = oh, !.headers = hdrs]
    IN
    IF errs # {} /\ page.status = 200
    THEN [resp |-> [asked EXCEPT !.status = e.responseHttpStatus, !.body = page.body,
                                 !.oai = page.allowed /\ who = cloudfrontOAI],
          objs |-> r.objs]
    ELSE [resp |-> [asked EXCEPT !.status = r.status, !.body = r.body,
                                 !.oai = r.allowed /\ who = cloudfrontOAI],
          objs |-> r.objs]

ViewerRequest(scheme, method, path, c, oh) ==
    /\ Quiet
    /\ R_Dist \in created
    /\ LET out == CdnResponse(cloudfrontDistribution, scheme, method, path, c, oh) IN
         /\ lastResp' = out.resp
         /\ objects' = out.objs
         /\ lastWriter' = IF out.objs # objects THEN cloudfrontOAI ELSE lastWriter
    /\ UNCHANGED <<phase, created, deploy, prev, runs, invalidation>>

(***************************************************************************)
(* The deployment action: one run syncs the source directory into the      *)
(* bucket file by file, then asks the distribution for an invalidation.    *)
(***************************************************************************)

\* A faulty variant: the sync uploads every file of the source, changed or not.
NeedsUpload_Always(src, objs, k) == TRUE

\* The sync uploads a file that the bucket lacks or holds with other content.
NeedsUpload(src, objs, k) == k \notin DOMAIN objs \/ objs[k] # src[k]

\* With prune, the sync also visits the objects the source lacks.
SyncKeys(dep, src, objs) ==
    DOMAIN src \cup (IF dep.prune THEN DOMAIN objs \ DOMAIN src ELSE {})

DeployStart(src) ==
    /\ Quiet
    /\ phase = "active"
    /\ ~Running
    /\ runs < MaxDeploys
    /\ DependsOn(R_Deploy) \subseteq created
    /\ deploy' = [pc |-> "uploading", src |-> src,
                  todo |-> SyncKeys(S3HostingBucketDeployment, src, objects),
                  uploaded |-> {}, invalidated |-> FALSE, failedIn |-> "none"]
    /\ prev' = IF deploy.pc = "succeeded" /\ src = deploy.src
               THEN [repeat |-> TRUE, objs |-> objects]
               ELSE [repeat |-> FALSE, objs |-> EmptyDir]
    /\ runs' = runs + 1
    /\ UNCHANGED <<phase, created, objects, invalidation, lastResp, lastWriter>>

\* One file of the sync: uploaded when it needs to be, left alone when the
\* bucket already holds it; an object the source lacks is deleted (prune).
DeployStep(k) ==
    /\ Quiet
    /\ Running
    /\ k \in deploy.todo
    /\ LET up == k \in DOMAIN deploy.src /\ NeedsUpload(deploy.src, objects, k)
           r == IF k \in DOMAIN deploy.src
                THEN IF up
                     THEN S3Request(DeploymentRole, "s3:PutObject", k, deploy.src[k])
                     ELSE [status |-> 200, body |-> <<>>, allowed |-> TRUE, objs |-> objects]
                ELSE S3Request(DeploymentRole, "s3:DeleteObject", k, "")
       IN
         /\ objects' = r.objs
         /\ lastWriter' = IF r.objs # objects THEN DeploymentRole ELSE lastWriter
         /\ deploy' = [deploy EXCEPT !.todo = @ \ {k},
                                     !.uploaded = IF up THEN @ \cup {k} ELSE @]
    /\ UNCHANGED <<phase, created, prev, runs, invalidation, lastResp>>

\* An upload fails: the run aborts where it stands.
UploadFail ==
    /\ Quiet
    /\ Running
    /\ deploy.todo # {}
    /\ deploy' = [deploy EXCEPT !.pc = "failed", !.failedIn = "upload"]
    /\ UNCHANGED <<phase, created, objects, prev, runs, invalidation, lastResp, lastWriter>>

\* A faulty variant: the invalidation may be issued while files are still to upload.
UploadDone_Early(d) == TRUE

\* The sync is over when no file is left to visit.
UploadDone(d) == d.todo = {}

\* The upload is complete: the invalidation is issued and the run succeeds.
DeployInvalidate ==
    /\ Quiet
    /\ Running
    /\ UploadDone(deploy)
    /\ IF S3HostingBucketDeployment.distribution = R_Dist
       THEN /\ invalidation' = "pending"
            /\ deploy' = [deploy EXCEPT !.pc = "succeeded", !.invalidated = TRUE]
       ELSE /\ invalidation' = invalidation
            /\ deploy' = [deploy EXCEPT !.pc = "succeeded"]
    /\ created' = created \cup {R_Deploy}
    /\ UNCHANGED <<phase, objects, prev, runs, lastResp, lastWriter>>

\* The invalidation request fails: the run fails, the upload stays.
InvalidateFail ==
    /\ Quiet
    /\ Running
    /\ UploadDone(deploy)
    /\ S3HostingBucketDeployment.distribution = R_Dist
    /\ invalidation' = "failed"
    /\ deploy' = [deploy EXCEPT !.pc = "failed", !.failedIn = "invalidation"]
    /\ UNCHANGED <<phase, created, objects, prev, runs, lastResp, lastWriter>>

\* A pending invalidation completes at the edge.
InvalidationSettle ==
    /\ Quiet
    /\ invalidation = "pending"
    /\ R_Dist \in created
    /\ invalidation' = "completed"
    /\ UNCHANGED <<phase, created, objects, deploy, prev, runs, lastResp, lastWriter>>

(***************************************************************************)
(* Teardown: resources are deleted in the reverse of the dependency order. *)
(***************************************************************************)

TeardownStart ==
    /\ Quiet
    /\ phase = "active"
    /\ ~Running
    /\ phase' = "deleting"
    /\ UNCHANGED <<created, objects, deploy, prev, runs, invalidation, lastResp, lastWriter>>

\* The bucket's turn to be deleted has come: under autoDeleteObjects its
\* objects are deleted first.
AutoDeleteObjects ==
    /\ Quiet
    /\ phase = "deleting"
    /\ R_Bucket \in created
    /\ \A q \in created : R_Bucket \notin DependsOn(q)
    /\ s3HostingBucket.removalPolicy = "DESTROY"
    /\ s3HostingBucket.autoDeleteObjects
    /\ objects # EmptyDir
    /\ S3Allows(AutoDeleteRole, "s3:DeleteObject")
    /\ objects' = EmptyDir
    /\ lastWriter' = AutoDeleteRole
    /\ UNCHANGED <<phase, created, deploy, prev, runs, invalidation, lastResp>>

\* A resource is deleted once nothing that exists refers to it; the bucket
\* only under removalPolicy DESTROY and only when it is empty.
Delete(r) ==
    /\ Quiet
    /\ phase = "deleting"
    /\ r \in created
    /\ \A q \in created : r \notin DependsOn(q)
    /\ r = R_Bucket => s3HostingBucket.removalPolicy = "DESTROY" /\ objects = EmptyDir
    /\ created' = created \ {r}
    /\ UNCHANGED <<phase, objects, deploy, prev, runs, invalidation, lastResp, lastWriter>>

TeardownStep == AutoDeleteObjects \/ \E r \in Resources : Delete(r)

Next ==
    \/ \E r \in Resources : Provision(r)
    \/ \E src \in Dirs : DeployStart(src)
    \/ \E k \in AllKeys : DeployStep(k)
    \/ UploadFail
    \/ DeployInvalidate
    \/ InvalidateFail
    \/ InvalidationSettle
    \/ \E s \in Schemes, m \in Methods, p \in Paths :
          \E c \in (IF m = "PUT" THEN Contents ELSE {""}),
             oh \in (IF s = "https" THEN OriginHeaderSets ELSE {{}}) :
                ViewerRequest(s, m, p, c, oh)
    \/ \E a \in DirectActions, k \in AllKeys :
          \E c \in (IF a = "s3:PutObject" THEN Contents ELSE {""}) : DirectRequest(a, k, c)
    \/ TeardownStart
    \/ AutoDeleteObjects
    \/ \E r \in Resources : Delete(r)
    \/ Receive

Spec == Init /\ [][Next]_vars

\* A response on its way is received, and the provisioning engine carries a
\* started teardown through, however many requests viewers send meanwhile.
FairSpec ==
    /\ Spec
    /\ WF_vars(Receive)
    /\ SF_vars(TeardownStep)

(***************************************************************************)
(* Properties.                                                             *)
(***************************************************************************)

\* C1: a read sent to the bucket's own endpoint is refused, whether or not
\* the object exists; a response carries an object only when it comes from
\* the distribution, whose fetch presented the origin access identity and
\* was let in by the attached bucket policy.
C1_BucketNotPublic ==
    /\ (lastResp.via = "s3" /\ lastResp.asked = "s3:GetObject")
          => (lastResp.status = 403 /\ lastResp.body = <<>>)
    /\ lastResp.body # <<>>
          => (lastResp.via = "cdn" /\ lastResp.oai /\ R_Policy \in created)

\* C1, its case: a direct read of an object the bucket holds was refused.
C1_Witness ==
    /\ lastResp.via = "s3"
    /\ lastResp.asked = "s3:GetObject"
    /\ lastResp.path \in DOMAIN objects
    /\ lastResp.status = 403

\* C2 as stated: every step that changes the bucket's objects is the
\* deployment action's.
C2_OnlyDeploymentWrites ==
    [][objects' # objects => lastWriter' = DeploymentRole]_vars

\* C2, amended: an object is added or overwritten only by the deployment
\* action while it runs; objects are removed only by the bucket's
\* auto-delete handler, which empties the bucket during teardown; a viewer,
\* through the distribution or directly, changes nothing.
C2_WritesConfined ==
    [][objects' # objects =>
          \/ /\ lastWriter' = DeploymentRole
             /\ Running
             /\ DOMAIN objects \subseteq DOMAIN objects'
          \/ /\ lastWriter' = AutoDeleteRole
             /\ phase = "deleting"
             /\ objects' = EmptyDir]_vars

\* C2, its case: teardown emptied a bucket the deployment had filled.
C2_Witness ==
    /\ phase = "deleting"
    /\ lastWriter = AutoDeleteRole
    /\ deploy.uploaded # {}
    /\ objects = EmptyDir

\* C3 as stated: whenever the origin answers 403, the viewer gets status
\* 404 and the body of /404.html.
C3_Always404 ==
    (lastResp.via = "cdn" /\ lastResp.origin = <<403>>)
        => /\ lastResp.status = 404
           /\ "404.html" \in DOMAIN objects
           /\ lastResp.body = <<objects["404.html"]>>

\* C3, amended: whenever the origin answers 403 and /404.html can itself be
\* fetched (the bucket holds it and the bucket policy is attached), the
\* viewer gets status 404 and the body of /404.html.
C3_404WhenPagePresent ==
    (/\ lastResp.via = "cdn"
     /\ lastResp.origin = <<403>>
     /\ "404.html" \in DOMAIN objects
     /\ R_Policy \in created)
        => /\ lastResp.status = 404
           /\ lastResp.body = <<objects["404.html"]>>

\* C3, its case: a request for a missing path got the 404 page.
C3_Witness ==
    /\ lastResp.via = "cdn"
    /\ lastResp.path = "/gone.html"
    /\ lastResp.origin = <<403>>
    /\ lastResp.status = 404
    /\ lastResp.body # <<>>

\* C4: a request over plain HTTP, whatever its path and method, is answered
\* with a redirect to the HTTPS URL of the same host and path, and with no
\* content.
C4_HttpRedirected ==
    (lastResp.via = "cdn" /\ lastResp.scheme = "http")
        => /\ lastResp.status \in {301, 307}
           /\ lastResp.location = "https://" \o Host \o lastResp.path
           /\ lastResp.body = <<>>
           /\ lastResp.origin = <<>>

\* C4, its case: a request other than GET over plain HTTP was redirected
\* although the bucket holds the object it names.
C4_Witness ==
    /\ lastResp.via = "cdn"
    /\ lastResp.scheme = "http"
    /\ lastResp.status = 307
    /\ lastResp.path = "/"
    /\ "index.html" \in DOMAIN objects

C6_NoPruneStillInvalidates ==
    /\ [][deploy' # deploy =>
             \A k \in DOMAIN objects :
                 /\ k \in DOMAIN objects'
                 /\ k \notin DOMAIN deploy'.src => objects'[k] = objects[k]]_vars
    /\ [](deploy.pc = "succeeded" => deploy.invalidated /\ invalidation # "none")

\* C6, its case: a second run completed with a source that lacks a file the
\* bucket still holds.
C6_Witness ==
    /\ runs = 2
    /\ deploy.pc = "succeeded"
    /\ deploy.invalidated
    /\ \E k \in DOMAIN objects : k \notin DOMAIN deploy.src

\* C7: once teardown has begun, the bucket and every object in it are
\* eventually gone.
C7_TeardownLeavesNothing ==
    (phase = "deleting") ~> (R_Bucket \notin created /\ objects = EmptyDir)

\* C7, its case: the bucket of a stack that had deployed is gone, emptied
\* by teardown.
C7_Witness ==
    /\ phase = "deleting"
    /\ runs > 0
    /\ lastWriter = AutoDeleteRole
    /\ R_Bucket \notin created
    /\ objects = EmptyDir

\* C8: an invalidation is issued only by a run whose upload is complete; a
\* run that failed in its upload has issued none; a change of the
\* invalidation's state changes no object, and what a finished run uploaded
\* is in the bucket whatever became of its invalidation.
C8_InvalidateAfterUpload ==
    /\ [][invalidation' = "pending" /\ invalidation # "pending"
             => Running /\ deploy.todo = {}]_vars
    /\ [][deploy'.invalidated /\ ~deploy.invalidated
             => Running /\ deploy.todo = {}]_vars
    /\ [](deploy.failedIn = "upload" => ~deploy.invalidated)
    /\ [][invalidation' # invalidation => objects' = objects]_vars
    /\ []((phase = "active" /\ deploy.pc \in {"succeeded", "failed"})
             => \A k \in deploy.uploaded :
                    k \in DOMAIN objects /\ objects[k] = deploy.src[k])

\* C8, its case: the invalidation of a run failed and its upload is still
\* in the bucket.
C8_Witness ==
    /\ deploy.pc = "failed"
    /\ deploy.failedIn = "invalidation"
    /\ invalidation = "failed"
    /\ deploy.uploaded # {}
    /\ \A k \in deploy.uploaded : k \in DOMAIN objects

\* C9: a run with the source of the successful run just before it leaves
\* the bucket as that run left it and uploads nothing.
C9_UploadIdempotent ==
    (phase = "active" /\ prev.repeat)
        => (objects = prev.objs /\ deploy.uploaded = {})

\* C9, its case: the second of two runs with the same files has completed.
C9_Witness ==
    /\ prev.repeat
    /\ deploy.pc = "succeeded"
    /\ DOMAIN deploy.src = Keys
    /\ objects = deploy.src

\* C10: the access policy is attached only once the bucket and the origin
\* identity exist, the distribution is created only once the bucket, the
\* identity and the header policy exist, the deployment runs only once the
\* bucket and the distribution exist, and the output is produced only once
\* the distribution exists.
C10_DependencyOrder ==
    [][/\ R_Policy \in created' \ created => {R_Bucket, R_OAI} \subseteq created
       /\ R_Dist \in created' \ created => {R_Bucket, R_OAI, R_Headers} \subseteq created
       /\ runs' # runs => {R_Bucket, R_Dist} \subseteq created
       /\ R_Deploy \in created' \ created => {R_Bucket, R_Dist} \subseteq created
       /\ R_Output \in created' \ created => R_Dist \in created]_vars

\* C10, its case: the whole stack has been provisioned.
C10_Witness ==
    /\ phase = "active"
    /\ Resources \subseteq created

====
